---- MODULE Spec2Model ----
(***************************************************************************)
(* Model of brickscope's weighted distribution sampler                     *)
(* (src/blender/addons/distribution_manager.py): DistributionItem,         *)
(* WeightedDistribution and DistributionConfig, together with the          *)
(* process-global generator of Python's random module that sample() draws  *)
(* from.                                                                   *)
(*                                                                         *)
(* Floating point.  Python floats are IEEE-754 binary64.  The model keeps  *)
(* the shape of the format (binary significand of Precision bits, round    *)
(* to nearest, ties to even, fixed quantum below the smallest normal       *)
(* number) at a reduced width: a float is the integer number of units it   *)
(* holds, where One units make 1.0.  Negative integers are negative        *)
(* floats; they occur only as inputs, before max(0.0, .) clamps them.      *)
(*                                                                         *)
(* Specifications.  Spec: the reads of one distribution.  SpecMutate: its  *)
(* mutators and get_item.  SpecConfig: generate_part_color_pairs.          *)
(* SpecExport: to_dict and from_dict.  SpecFile: save and load, a file     *)
(* being the sequence of its JSON tokens.  SpecThreads: sample() on two    *)
(* threads that share the generator.  SpecRead: every read operation.      *)
(* SpecCounts: get_expected_counts.  SpecPanel: the operators of the       *)
(* distribution panel (distribution_operators.py) on the scene's           *)
(* properties (distribution_properties.py).  SpecBake: bake_distribution   *)
(* with the global part cache (part_cache.py) and the LDraw importer       *)
(* (ldraw_wrapper.py).                                                     *)
(***************************************************************************)
EXTENDS Integers, Sequences, FiniteSets, TLC

\* ------------------------------------------------------------------ bounds
\* significand bits of the float format (binary64 has 53)
Precision == 3
\* most items one WeightedDistribution holds
MaxItems == 2
\* largest sample count / total_pieces
MaxCount == 2
\* seeds are 0..MaxSeed, or None
MaxSeed == 1
\* largest total given to get_expected_counts
MaxTotal == 3
\* most undo steps (operators run, weights edited) in one session of the panel
MaxUndoSteps == 5

\* ------------------------------------------------------- float arithmetic
Pow2(k) == IF k <= 0 THEN 1 ELSE 2 ^ k

RECURSIVE BitLen(_)
BitLen(n) == IF n <= 0 THEN 0 ELSE 1 + BitLen(n \div 2)

\* 1.0 is One units; the six extra bits keep every quotient weight/total of
\* the model in the normal range, as it is for binary64 weights.
FracBits == Precision + 6
One == Pow2(FracBits)

\* a/b (a >= 0, b > 0) rounded to an integer, ties to the even one
RoundHalfEven(a, b) ==
    LET q == a \div b
        r == a % b
    IN  IF 2 * r < b THEN q
        ELSE IF 2 * r > b THEN q + 1
        ELSE IF q % 2 = 0 THEN q ELSE q + 1

\* the float nearest to num/den units (num >= 0, den > 0)
RoundToFloat(num, den) ==
    LET quantum == Pow2(BitLen(num \div den) - Precision)
    IN  RoundHalfEven(num, den * quantum) * quantum

FAdd(x, y) == RoundToFloat(x + y, 1)
FMul(x, y) == RoundToFloat(x * y, One)
FDiv(x, y) == RoundToFloat(x * One, y)

\* mutant of ClampWeight: the weight is stored as given
ClampWeightMissing(w) == w

\* Python's max(0.0, weight): weight when weight > 0.0, else 0.0
ClampWeight(w) == IF w > 0 THEN w ELSE 0

\* Python's sum(): left to right, each partial sum rounded
RECURSIVE FSum(_)
FSum(ws) == IF ws = <<>> THEN 0
            ELSE FAdd(FSum(SubSeq(ws, 1, Len(ws) - 1)), ws[Len(ws)])

\* ------------------------------------------------------------- data model
\* Optional[int]: None is the empty sequence, the integer s is <<s>>
None == <<>>
Some(s) == <<s>>

\* the part/colour catalogue callers take ids and names from
Ids == {"A", "B"}
Catalog == {<<"A", "Alpha">>, <<"B", "Beta">>}

\* weights callers pass: -1.0, 0.0, 1.0 and 2.0
WeightInputs == {0 - One, 0, One, 2 * One}

\* DistributionItem.__init__
DistributionItem(id, name, weight) ==
    [id |-> id, name |-> name, weight |-> ClampWeight(weight)]

\* ------------------------------------------- the process-global generator
\* The state of the generator behind random.seed / random.random /
\* random.choice / random.choices.  The Mersenne Twister is modelled by a
\* full-period linear congruential generator on Precision bits: what the
\* sampler relies on is that the state after seed(s) is a function of s and
\* that every output is a function of the state before it.
RngStates == 0 .. (Pow2(Precision) - 1)

\* random.seed(s)
RandomSeed(s) == (7 * s + 1) % Pow2(Precision)

\* one step of the generator
RandomNext(g) == (5 * g + 3) % Pow2(Precision)

\* random.random(): a float k / 2^Precision in [0.0, 1.0), and the new state
RandomRandom(g) ==
    LET g1 == RandomNext(g)
    IN  [val |-> g1 * Pow2(FracBits - Precision), rng |-> g1]

\* random.getrandbits(k): the k leading bits of the next output
GetRandBits(k, g) ==
    LET g1 == RandomNext(g)
    IN  [val |-> g1 \div Pow2(Precision - k), rng |-> g1]

\* Random._randbelow_with_getrandbits(n): draw n.bit_length() bits until the
\* value is below n
RECURSIVE RandBelow(_, _)
RandBelow(n, g) ==
    LET r == GetRandBits(BitLen(n), g)
    IN  IF r.val >= n THEN RandBelow(n, r.rng) ELSE r

\* random.choice(seq): seq[_randbelow(len(seq))]
RandomChoice(seq, g) ==
    LET r == RandBelow(Len(seq), g)
    IN  [val |-> seq[r.val + 1], rng |-> r.rng]

\* [random.choice(items) for _ in range(count)]
RECURSIVE ChoiceLoop(_, _, _)
ChoiceLoop(seq, count, g) ==
    IF count <= 0 THEN [val |-> <<>>, rng |-> g, err |-> "none"]
    ELSE LET c == RandomChoice(seq, g)
             rest == ChoiceLoop(seq, count - 1, c.rng)
         IN  [val |-> <<c.val>> \o rest.val, rng |-> rest.rng, err |-> "none"]

\* itertools.accumulate(weights): running float sums
RECURSIVE Accumulate(_)
Accumulate(ws) ==
    IF Len(ws) <= 1 THEN ws
    ELSE LET head == Accumulate(SubSeq(ws, 1, Len(ws) - 1))
         IN  Append(head, FAdd(head[Len(head)], ws[Len(ws)]))

\* bisect.bisect_right(a, x, lo, hi) on the 0-based list a
RECURSIVE Bisect(_, _, _, _)
Bisect(a, x, lo, hi) ==
    IF lo >= hi THEN lo
    ELSE LET mid == (lo + hi) \div 2
         IN  IF x < a[mid + 1] THEN Bisect(a, x, lo, mid)
             ELSE Bisect(a, x, mid + 1, hi)

\* the k draws of random.choices: population[bisect(cum, random() * total, 0, hi)]
RECURSIVE ChoicesLoop(_, _, _, _, _)
ChoicesLoop(population, cum, total, k, g) ==
    IF k <= 0 THEN [val |-> <<>>, rng |-> g, err |-> "none"]
    ELSE LET u == RandomRandom(g)
             i == Bisect(cum, FMul(u.val, total), 0, Len(population) - 1)
             rest == ChoicesLoop(population, cum, total, k - 1, u.rng)
         IN  [val |-> <<population[i + 1]>> \o rest.val, rng |-> rest.rng,
              err |-> "none"]

\* random.choices(population, weights=weights, k=k): ValueError when the
\* weights do not total more than zero
RandomChoices(population, weights, k, g) ==
    LET cum == Accumulate(weights)
        total == cum[Len(cum)]
    IN  IF total <= 0 THEN [val |-> <<>>, rng |-> g, err |-> "ValueError"]
        ELSE ChoicesLoop(population, cum, total, k, g)

\* --------------------------------------------------- WeightedDistribution
Weights(its) == [i \in 1 .. Len(its) |-> its[i].weight]

\* sum(item.weight for item in self.items)
TotalWeight(its) == FSum(Weights(its))

\* mutant of GetNormalizedWeights: a zero total is replaced by 1.0 instead of
\* returning the empty list
GetNormalizedWeightsTotalOrOne(its) ==
    LET total == IF TotalWeight(its) = 0 THEN One ELSE TotalWeight(its)
    IN  [i \in 1 .. Len(its) |-> FDiv(its[i].weight, total)]

\* mutant of GetNormalizedWeights: divides by the number of items
GetNormalizedWeightsByCount(its) ==
    LET total == TotalWeight(its)
    IN  IF total = 0 THEN <<>>
        ELSE [i \in 1 .. Len(its) |-> FDiv(its[i].weight, Len(its) * One)]

\* WeightedDistribution.get_normalized_weights
GetNormalizedWeights(its) ==
    LET total == TotalWeight(its)
    IN  IF total = 0 THEN <<>>
        ELSE [i \in 1 .. Len(its) |-> FDiv(its[i].weight, total)]

\* mutant of SampleGenerator: the seed is ignored
SampleGeneratorNoReseed(sd, g) == g

\* the generator sample() draws from: reseeded when a seed is given
SampleGenerator(sd, g) == IF sd # None THEN RandomSeed(sd[1]) ELSE g

\* mutant of SampleResult: random.seed(seed) runs before the check for an
\* empty distribution
SampleResultSeedFirst(its, count, sd, g) ==
    LET g0 == SampleGenerator(sd, g)
        weights == GetNormalizedWeights(its)
    IN  IF its = <<>> THEN [val |-> <<>>, rng |-> g0, err |-> "none"]
        ELSE IF weights = <<>> THEN ChoiceLoop(its, count, g0)
        ELSE RandomChoices(its, weights, count, g0)

\* mutant of SampleResult: all-zero weights are treated like no items
SampleResultEmptyOnZero(its, count, sd, g) ==
    IF its = <<>> THEN [val |-> <<>>, rng |-> g, err |-> "none"]
    ELSE LET g0 == SampleGenerator(sd, g)
             weights == GetNormalizedWeights(its)
         IN  IF weights = <<>> THEN [val |-> <<>>, rng |-> g0, err |-> "none"]
             ELSE RandomChoices(its, weights, count, g0)

\* mutant of SampleResult: the weights are never used, every draw is uniform
SampleResultUniform(its, count, sd, g) ==
    IF its = <<>> THEN [val |-> <<>>, rng |-> g, err |-> "none"]
    ELSE ChoiceLoop(its, count, SampleGenerator(sd, g))

\* mutant of SampleResult: no uniform fallback, the raw weights go to
\* random.choices
SampleResultNoFallback(its, count, sd, g) ==
    IF its = <<>> THEN [val |-> <<>>, rng |-> g, err |-> "none"]
    ELSE RandomChoices(its, Weights(its), count, SampleGenerator(sd, g))

\* WeightedDistribution.sample: the returned list, the generator state it
\* leaves and the exception it raises ("none" when it returns)
SampleResult(its, count, sd, g) ==
    IF its = <<>> THEN [val |-> <<>>, rng |-> g, err |-> "none"]
    ELSE LET g0 == SampleGenerator(sd, g)
             weights == GetNormalizedWeights(its)
         IN  IF weights = <<>> THEN ChoiceLoop(its, count, g0)
             ELSE RandomChoices(its, weights, count, g0)

\* mutant of SampleDraw: the draw does not move the generator on
SampleDrawStale(its, g) ==
    LET weights == GetNormalizedWeights(its)
        r == IF weights = <<>> THEN ChoiceLoop(its, 1, g)
             ELSE RandomChoices(its, weights, 1, g)
    IN  [val |-> r.val, rng |-> g, err |-> r.err]

\* one turn of the loop that sample() runs count times: one random.choice, or
\* one iteration of random.choices; between two turns another thread can run
SampleDraw(its, g) ==
    LET weights == GetNormalizedWeights(its)
    IN  IF weights = <<>> THEN ChoiceLoop(its, 1, g)
        ELSE RandomChoices(its, weights, 1, g)

\* WeightedDistribution.add_item: append, no check for a duplicate id
AddItemTo(its, id, name, weight) == Append(its, DistributionItem(id, name, weight))

\* mutant of RemoveItemFrom: only the first item with the id is removed
RemoveFirstFrom(its, id) ==
    IF \A i \in 1 .. Len(its) : its[i].id # id THEN its
    ELSE LET f == CHOOSE i \in 1 .. Len(its) :
                      /\ its[i].id = id
                      /\ \A j \in 1 .. (i - 1) : its[j].id # id
         IN  SubSeq(its, 1, f - 1) \o SubSeq(its, f + 1, Len(its))

\* WeightedDistribution.remove_item: keep the items with another id
RemoveItemFrom(its, id) == SelectSeq(its, LAMBDA it : it.id # id)

\* mutant of GetItemIndex: the position of the last item with this id
GetItemIndexLast(its, id) ==
    IF \E i \in 1 .. Len(its) : its[i].id = id
    THEN CHOOSE i \in 1 .. Len(its) :
             /\ its[i].id = id
             /\ \A j \in (i + 1) .. Len(its) : its[j].id # id
    ELSE 0

\* WeightedDistribution.get_item: the position of the first item with this
\* id, 0 for None
GetItemIndex(its, id) ==
    IF \E i \in 1 .. Len(its) : its[i].id = id
    THEN CHOOSE i \in 1 .. Len(its) :
             /\ its[i].id = id
             /\ \A j \in 1 .. (i - 1) : its[j].id # id
    ELSE 0

\* WeightedDistribution.get_item: the item itself, or None
GetItemIn(its, id) ==
    LET i == GetItemIndex(its, id)
    IN  IF i = 0 THEN None ELSE Some(its[i])

\* mutant of SetWeightIn: every item with the id takes the weight
SetWeightOfAll(its, id, weight) ==
    [i \in 1 .. Len(its) |->
        IF its[i].id = id THEN [its[i] EXCEPT !.weight = ClampWeight(weight)]
        ELSE its[i]]

\* WeightedDistribution.set_weight
SetWeightIn(its, id, weight) ==
    LET i == GetItemIndex(its, id)
    IN  IF i = 0 THEN its
        ELSE [its EXCEPT ![i].weight = ClampWeight(weight)]

\* mutant of ItemFromDict: the default is taken with
\* data.get("weight") or 1.0, which also replaces a stored 0
ItemFromDictFalsyDefault(data) ==
    DistributionItem(data.id, data.name,
                     IF "weight" \in DOMAIN data /\ data.weight # 0
                     THEN data.weight ELSE One)

\* DistributionItem.from_dict: data.get("weight", 1.0)
ItemFromDict(data) ==
    DistributionItem(data.id, data.name,
                     IF "weight" \in DOMAIN data THEN data.weight ELSE One)

\* WeightedDistribution.from_dict
DistributionFromDict(data) ==
    [i \in 1 .. Len(data.items) |-> ItemFromDict(data.items[i])]

\* what a call gives back: its value, or the exception it raises
Returned(val) == [val |-> val, err |-> "none"]
Raised(err) == [val |-> <<>>, err |-> err]

\* a mapping with no key at all: {}
EmptyDict == <<>>

\* DistributionItem.to_dict
ItemToDict(it) == [id |-> it.id, name |-> it.name, weight |-> it.weight]

\* mutant of PyRound: ties go up
PyRoundHalfUp(x) == (2 * x + One) \div (2 * One)

\* float(total) and round(x): the nearest float of an int, and the nearest
\* int of a float, ties to the even one
IntToFloat(n) == RoundToFloat(n * One, 1)
PyRound(x) == RoundHalfEven(x, One)

\* mutant of GetExpectedCounts: items of weight 0 get no entry
GetExpectedCountsPositiveOnly(its, total) ==
    LET normalized == GetNormalizedWeights(its)
        Last(id) == CHOOSE i \in 1 .. Len(its) :
                        /\ its[i].id = id
                        /\ \A j \in (i + 1) .. Len(its) : its[j].id # id
    IN  IF normalized = <<>> THEN EmptyDict
        ELSE [id \in {its[i].id : i \in {j \in 1 .. Len(its) : its[j].weight > 0}} |->
                 RoundHalfEven(FMul(normalized[Last(id)], IntToFloat(total)), One)]

\* mutant of GetExpectedCounts: the weights are used as they are, not
\* normalized
GetExpectedCountsUnnormalized(its, total) ==
    LET Last(id) == CHOOSE i \in 1 .. Len(its) :
                        /\ its[i].id = id
                        /\ \A j \in (i + 1) .. Len(its) : its[j].id # id
    IN  IF GetNormalizedWeights(its) = <<>> THEN EmptyDict
        ELSE [id \in {its[i].id : i \in 1 .. Len(its)} |->
                 RoundHalfEven(FMul(its[Last(id)].weight, IntToFloat(total)), One)]

\* mutant of GetExpectedCounts: an id met again keeps its first entry
GetExpectedCountsFirst(its, total) ==
    LET normalized == GetNormalizedWeights(its)
        First(id) == CHOOSE i \in 1 .. Len(its) :
                        /\ its[i].id = id
                        /\ \A j \in 1 .. (i - 1) : its[j].id # id
    IN  IF normalized = <<>> THEN EmptyDict
        ELSE [id \in {its[i].id : i \in 1 .. Len(its)} |->
                 RoundHalfEven(FMul(normalized[First(id)], IntToFloat(total)), One)]

\* WeightedDistribution.get_expected_counts: {} when get_normalized_weights
\* returns [], else int(round(norm_weight * total)) under each item's id; an
\* id the loop meets again overwrites its entry
GetExpectedCounts(its, total) ==
    LET normalized == GetNormalizedWeights(its)
        Last(id) == CHOOSE i \in 1 .. Len(its) :
                        /\ its[i].id = id
                        /\ \A j \in (i + 1) .. Len(its) : its[j].id # id
    IN  IF normalized = <<>> THEN EmptyDict
        ELSE [id \in {its[i].id : i \in 1 .. Len(its)} |->
                 PyRound(FMul(normalized[Last(id)], IntToFloat(total)))]

\* WeightedDistribution.to_dict
DistributionToDict(its) == [items |-> [i \in 1 .. Len(its) |-> ItemToDict(its[i])]]

\* DistributionItem.from_dict with its failures: data["id"] and data["name"]
\* raise KeyError when the key is absent
ItemFromDictResult(data) ==
    IF "id" \notin DOMAIN data THEN Raised("KeyError")
    ELSE IF "name" \notin DOMAIN data THEN Raised("KeyError")
    ELSE Returned(ItemFromDict(data))

\* WeightedDistribution.from_dict with its failures: data["items"] raises
\* KeyError, and so does the first item that cannot be imported
DistributionFromDictResult(data) ==
    IF "items" \notin DOMAIN data THEN Raised("KeyError")
    ELSE IF \E i \in 1 .. Len(data.items) : ItemFromDictResult(data.items[i]).err # "none"
         THEN Raised("KeyError")
         ELSE Returned(DistributionFromDict(data))

\* ------------------------------------------------------ DistributionConfig
\* total_pieces when the constructor is given none
DefaultTotalPieces == 100

\* DistributionConfig.__init__
DistributionConfig(pd, cd, tp, sd) ==
    [part_distribution |-> pd, color_distribution |-> cd,
     total_pieces |-> tp, seed |-> sd]

\* mutant of ColorSeed: the colours are drawn with the part seed
ColorSeedSame(sd) == sd

\* color_seed = self.seed + 1 if self.seed is not None else None
ColorSeed(sd) == IF sd # None THEN Some(sd[1] + 1) ELSE None

\* mutant of ZipIds: the pair is built the wrong way round
ZipIdsSwapped(ps, cs) ==
    LET n == IF Len(ps) <= Len(cs) THEN Len(ps) ELSE Len(cs)
    IN  [i \in 1 .. n |-> <<cs[i].id, ps[i].id>>]

\* [(part.id, color.id) for part, color in zip(parts, colors)]
ZipIds(ps, cs) ==
    LET n == IF Len(ps) <= Len(cs) THEN Len(ps) ELSE Len(cs)
    IN  [i \in 1 .. n |-> <<ps[i].id, cs[i].id>>]

\* mutant of GeneratePartColorPairs: the colour draw leaves out the count, so
\* sample() takes its default count of 1
GeneratePartColorPairsOneColor(cfg, g) ==
    LET ps == SampleResult(cfg.part_distribution, cfg.total_pieces, cfg.seed, g)
        cs == SampleResult(cfg.color_distribution, 1, ColorSeed(cfg.seed), ps.rng)
    IN  [val |-> ZipIds(ps.val, cs.val), rng |-> cs.rng, err |-> "none"]

\* DistributionConfig.generate_part_color_pairs: the returned pairs, the
\* generator state it leaves and the exception it raises
GeneratePartColorPairs(cfg, g) ==
    LET ps == SampleResult(cfg.part_distribution, cfg.total_pieces, cfg.seed, g)
        cs == SampleResult(cfg.color_distribution, cfg.total_pieces,
                           ColorSeed(cfg.seed), ps.rng)
    IN  IF ps.err # "none" THEN [val |-> <<>>, rng |-> ps.rng, err |-> ps.err]
        ELSE IF cs.err # "none" THEN [val |-> <<>>, rng |-> cs.rng, err |-> cs.err]
        ELSE [val |-> ZipIds(ps.val, cs.val), rng |-> cs.rng, err |-> "none"]

\* DistributionConfig.to_dict
ConfigToDict(cfg) ==
    [parts |-> DistributionToDict(cfg.part_distribution),
     colors |-> DistributionToDict(cfg.color_distribution),
     total_pieces |-> cfg.total_pieces,
     seed |-> cfg.seed]

\* data.get("total_pieces", 100) and data.get("seed")
GetTotalPieces(data) ==
    IF "total_pieces" \in DOMAIN data THEN data.total_pieces ELSE DefaultTotalPieces
GetSeed(data) == IF "seed" \in DOMAIN data THEN data.seed ELSE None

\* mutant of ConfigFromDictResult: the default is taken with
\* data.get("total_pieces") or 100, which also replaces a stored 0
ConfigFromDictFalsyDefault(data) ==
    IF "parts" \notin DOMAIN data \/ "colors" \notin DOMAIN data THEN Raised("KeyError")
    ELSE LET pd == DistributionFromDictResult(data.parts)
             cd == DistributionFromDictResult(data.colors)
         IN  IF pd.err # "none" \/ cd.err # "none" THEN Raised("KeyError")
             ELSE Returned(DistributionConfig(pd.val, cd.val,
                      IF GetTotalPieces(data) = 0 THEN DefaultTotalPieces
                      ELSE GetTotalPieces(data),
                      GetSeed(data)))

\* DistributionConfig.from_dict with its failures; the arguments are evaluated
\* in the order parts, colors, total_pieces, seed
ConfigFromDictResult(data) ==
    IF "parts" \notin DOMAIN data THEN Raised("KeyError")
    ELSE LET pd == DistributionFromDictResult(data.parts)
         IN  IF pd.err # "none" THEN Raised(pd.err)
             ELSE IF "colors" \notin DOMAIN data THEN Raised("KeyError")
             ELSE LET cd == DistributionFromDictResult(data.colors)
                  IN  IF cd.err # "none" THEN Raised(cd.err)
                      ELSE Returned(DistributionConfig(pd.val, cd.val,
                               GetTotalPieces(data), GetSeed(data)))

\* ------------------------------------------------------------- JSON files
\* The text of a file is the sequence of its JSON tokens; the white space
\* that indent=2 puts between them carries no value and is left out.  A
\* number token holds the exact value: Python writes the shortest decimal
\* that reads back as the same float.
Token(t, s, n) == [t |-> t, s |-> s, n |-> n]
LBrace == Token("{", "", 0)
RBrace == Token("}", "", 0)
LBracket == Token("[", "", 0)
RBracket == Token("]", "", 0)
Colon == Token(":", "", 0)
Comma == Token(",", "", 0)
JNull == Token("null", "", 0)
JStr(s) == Token("str", s, 0)
JNum(n) == Token("num", "", n)

\* json.dump of what DistributionItem.to_dict returns
JsonItem(d) ==
    <<LBrace, JStr("id"), Colon, JStr(d.id), Comma,
      JStr("name"), Colon, JStr(d.name), Comma,
      JStr("weight"), Colon, JNum(d.weight), RBrace>>

\* the elements of a JSON array, with a comma between two of them
RECURSIVE JsonElements(_)
JsonElements(ds) ==
    IF Len(ds) = 0 THEN <<>>
    ELSE IF Len(ds) = 1 THEN JsonItem(ds[1])
    ELSE JsonItem(ds[1]) \o <<Comma>> \o JsonElements(Tail(ds))

\* json.dump of what WeightedDistribution.to_dict returns
JsonDistribution(d) ==
    <<LBrace, JStr("items"), Colon, LBracket>> \o JsonElements(d.items)
        \o <<RBracket, RBrace>>

\* json.dump of what DistributionConfig.to_dict returns; None is written null
JsonConfig(d) ==
    <<LBrace, JStr("parts"), Colon>> \o JsonDistribution(d.parts)
        \o <<Comma, JStr("colors"), Colon>> \o JsonDistribution(d.colors)
        \o <<Comma, JStr("total_pieces"), Colon, JNum(d.total_pieces),
             Comma, JStr("seed"), Colon,
             IF d.seed = None THEN JNull ELSE JNum(d.seed[1]), RBrace>>

\* the token at position i, an end mark past the last one
EndOfText == Token("eof", "", 0)
TokenAt(text, i) == IF i >= 1 /\ i <= Len(text) THEN text[i] ELSE EndOfText

Parsed(val, next) == [ok |-> TRUE, val |-> val, next |-> next]
NotParsed == [ok |-> FALSE, val |-> <<>>, next |-> 0]

\* The value the model keeps for a member of a JSON object.  Values carry no
\* run-time type here, so a member that may be None (seed) is kept as None or
\* Some(n), the way DistributionConfig.seed is.
MemberValue(key, token, val) ==
    IF key = "seed" /\ token.t = "num" THEN Some(val) ELSE val

\* json.load: the value that starts at token i and the position after it.
\* An object becomes a mapping (a repeated key keeps its last value), an
\* array a list, null None.
RECURSIVE ParseValue(_, _), ParseMembers(_, _, _), ParseElements(_, _, _)
ParseValue(text, i) ==
    LET tok == TokenAt(text, i)
    IN  CASE tok.t = "str" -> Parsed(tok.s, i + 1)
          [] tok.t = "num" -> Parsed(tok.n, i + 1)
          [] tok.t = "null" -> Parsed(None, i + 1)
          [] tok.t = "{" -> IF TokenAt(text, i + 1).t = "}"
                            THEN Parsed(EmptyDict, i + 2)
                            ELSE ParseMembers(text, i + 1, EmptyDict)
          [] tok.t = "[" -> IF TokenAt(text, i + 1).t = "]"
                            THEN Parsed(<<>>, i + 2)
                            ELSE ParseElements(text, i + 1, <<>>)
          [] OTHER -> NotParsed

ParseMembers(text, i, acc) ==
    IF TokenAt(text, i).t # "str" \/ TokenAt(text, i + 1).t # ":" THEN NotParsed
    ELSE LET v == ParseValue(text, i + 2)
         IN  IF ~v.ok THEN NotParsed
             ELSE LET key == text[i].s
                      acc2 == (key :> MemberValue(key, text[i + 2], v.val)) @@ acc
                  IN  IF TokenAt(text, v.next).t = ","
                      THEN ParseMembers(text, v.next + 1, acc2)
                      ELSE IF TokenAt(text, v.next).t = "}"
                      THEN Parsed(acc2, v.next + 1)
                      ELSE NotParsed

ParseElements(text, i, acc) ==
    LET v == ParseValue(text, i)
    IN  IF ~v.ok THEN NotParsed
        ELSE IF TokenAt(text, v.next).t = ","
        THEN ParseElements(text, v.next + 1, Append(acc, v.val))
        ELSE IF TokenAt(text, v.next).t = "]"
        THEN Parsed(Append(acc, v.val), v.next + 1)
        ELSE NotParsed

\* json.load(f): the whole text must be one value
JsonLoad(text) ==
    LET v == ParseValue(text, 1)
    IN  IF v.ok /\ v.next = Len(text) + 1 THEN Returned(v.val)
        ELSE Raised("JSONDecodeError")

\* the paths save and load are given
Paths == {"distribution.json"}

\* mutant of OpenForWrite: mode 'a', which keeps what the file holds
OpenForAppend(content) == IF content = None THEN <<>> ELSE content[1]

\* open(filepath, 'w'): the file is created, or cut to length 0, before
\* anything is written; content is what the path held (None: no such file)
OpenForWrite(content) == <<>>

\* with open(filepath, 'w') as f: json.dump(..., f, indent=2).  written tells
\* how the operating system lets the call go: -1, the file cannot be opened
\* and is left alone; k < Len(text), the write fails after k tokens and the
\* file is closed with what was written; Len(text), all of it is written.
SaveTo(content, text, written) ==
    IF written < 0 THEN [file |-> content, err |-> "PermissionError"]
    ELSE [file |-> Some(OpenForWrite(content) \o SubSeq(text, 1, written)),
          err |-> IF written = Len(text) THEN "none" ELSE "OSError"]

\* with open(filepath, 'r') as f: data = json.load(f).  denied: the operating
\* system refuses to open the file for reading.
ReadJson(content, denied) ==
    IF content = None THEN Raised("FileNotFoundError")
    ELSE IF denied THEN Raised("PermissionError")
    ELSE JsonLoad(content[1])

\* WeightedDistribution.load
LoadDistribution(content, denied) ==
    LET data == ReadJson(content, denied)
    IN  IF data.err # "none" THEN Raised(data.err)
        ELSE DistributionFromDictResult(data.val)

\* DistributionConfig.load
LoadConfig(content, denied) ==
    LET data == ReadJson(content, denied)
    IN  IF data.err # "none" THEN Raised(data.err)
        ELSE ConfigFromDictResult(data.val)

\* ------------------------------------------------------------------ state
VARIABLES
    items,      \* WeightedDistribution.items of the distribution D
    config,     \* a DistributionConfig: its two distributions, total_pieces, seed
    rng,        \* state of the process-global generator of the random module
    ret,        \* the last call: its name, arguments, return value, exception
    files,      \* the file system: the text stored at each path that exists
    threads,    \* the threads inside a call of sample(), each at its own step
    props,      \* context.scene.brickscope_distribution (DistributionProperties)
    cache,      \* part_cache._global_cache: None or the keys of PartCache._cache
    bpy         \* the rest of the Blender session the operators read and write

vars == <<items, config, rng, ret, files, threads, props, cache, bpy>>

\* no file exists; no thread but the main one runs
NoFiles == [p \in Paths |-> None]
NoThreads == <<>>

\* a new scene: both lists empty, the properties at their defaults
NoProps ==
    [parts |-> <<>>, colors |-> <<>>,
     parts_active_index |-> 0, colors_active_index |-> 0,
     total_pieces |-> 100, random_seed |-> 0]

\* a session in which no operator has run: no LDraw path in the preferences,
\* no importer add-on, no part file, no collection, no import, no instance,
\* no undo step
NoBpy ==
    [ldraw_library_path |-> "", has_ldr_tools |-> FALSE, part_files |-> {},
     collections |-> {}, import_part |-> <<>>, create_instance |-> <<>>,
     undo_steps |-> 0]

\* the state of Blender where the add-on's operators do not run
NoBlender == props = NoProps /\ cache = None /\ bpy = NoBpy

Seeds == {None} \cup {Some(s) : s \in 0 .. MaxSeed}
Counts == 0 .. MaxCount
Totals == 0 .. MaxTotal

Return(op, args, val, err) == [op |-> op, args |-> args, val |-> val, err |-> err]

\* lists of at most n elements of S
ListsUpTo(S, n) == UNION {[1 .. k -> S] : k \in 0 .. n}

\* the mappings from_dict is given: without a weight (older files), and with
\* a zero, a positive and a negative one
ItemDicts ==
    {[id |-> "A", name |-> "Alpha"],
     [id |-> "A", name |-> "Alpha", weight |-> 0],
     [id |-> "B", name |-> "Beta", weight |-> 2 * One],
     [id |-> "B", name |-> "Beta", weight |-> 0 - One]}

\* a distribution starts empty (WeightedDistribution()) or is imported
\* (WeightedDistribution.from_dict)
InitialItems ==
    {<<>>} \cup {DistributionFromDict([items |-> l]) : l \in ListsUpTo(ItemDicts, MaxItems)}

\* Init: D as constructed, the generator in any state (the random module
\* seeds it from the operating system when it is imported)
Init ==
    /\ items \in InitialItems
    /\ config = DistributionConfig(<<>>, <<>>, DefaultTotalPieces, None)
    /\ rng \in RngStates
    /\ ret = Return("init", <<>>, <<>>, "none")
    /\ files = NoFiles
    /\ threads = NoThreads
    /\ NoBlender

\* D.add_item(id, name, weight)
AddItem ==
    \E c \in Catalog, w \in WeightInputs :
        /\ Len(items) < MaxItems
        /\ items' = AddItemTo(items, c[1], c[2], w)
        /\ ret' = Return("add_item", [id |-> c[1], name |-> c[2], weight |-> w],
                         <<>>, "none")
        /\ UNCHANGED <<config, rng, files, threads, props, cache, bpy>>

\* D.remove_item(id)
RemoveItem ==
    \E id \in Ids :
        /\ items' = RemoveItemFrom(items, id)
        /\ ret' = Return("remove_item", [id |-> id], <<>>, "none")
        /\ UNCHANGED <<config, rng, files, threads, props, cache, bpy>>

\* D.set_weight(id, weight)
SetWeight ==
    \E id \in Ids, w \in WeightInputs :
        /\ items' = SetWeightIn(items, id, w)
        /\ ret' = Return("set_weight", [id |-> id, weight |-> w], <<>>, "none")
        /\ UNCHANGED <<config, rng, files, threads, props, cache, bpy>>

\* D.get_item(id)
GetItem ==
    \E id \in Ids :
        /\ ret' = Return("get_item", [id |-> id], GetItemIn(items, id), "none")
        /\ UNCHANGED <<items, config, rng, files, threads, props, cache, bpy>>

\* D.get_normalized_weights()
NormalizedWeights ==
    /\ ret' = Return("get_normalized_weights", <<>>, GetNormalizedWeights(items),
                     "none")
    /\ UNCHANGED <<items, config, rng, files, threads, props, cache, bpy>>

\* D.sample(count, seed)
Sample ==
    \E count \in Counts, sd \in Seeds :
        LET r == SampleResult(items, count, sd, rng)
        IN  /\ rng' = r.rng
            /\ ret' = Return("sample", [count |-> count, seed |-> sd], r.val, r.err)
            /\ UNCHANGED <<items, config, files, threads, props, cache, bpy>>

\* The read operations of one distribution D, from any generator state.
Next == NormalizedWeights \/ Sample

Spec == Init /\ [][Next]_vars

\* The mutators of one distribution D, and the lookup set_weight is built
\* on.  None of them reads or writes the
\* generator, so its state is fixed to the one seed 0 leaves.
InitMutate ==
    /\ items \in InitialItems
    /\ config = DistributionConfig(<<>>, <<>>, DefaultTotalPieces, None)
    /\ rng = RandomSeed(0)
    /\ ret = Return("init", <<>>, <<>>, "none")
    /\ files = NoFiles
    /\ threads = NoThreads
    /\ NoBlender

NextMutate == AddItem \/ RemoveItem \/ SetWeight \/ GetItem

SpecMutate == InitMutate /\ [][NextMutate]_vars

\* A DistributionConfig built from two distributions, a piece count and a
\* seed.  Part ids and colour ids are those of the preset catalogue.
PartItems ==
    {DistributionItem("3001", "Brick 2x4", One),
     DistributionItem("3002", "Brick 2x3", 2 * One)}
ColorItems ==
    {DistributionItem("4", "Red", One),
     DistributionItem("1", "Blue", One)}

InitConfig ==
    /\ items = <<>>
    /\ config \in {DistributionConfig(pd, cd, tp, sd) :
                       pd \in ListsUpTo(PartItems, MaxItems),
                       cd \in ListsUpTo(ColorItems, MaxItems),
                       tp \in Counts, sd \in Seeds}
    /\ rng \in RngStates
    /\ ret = Return("init", <<>>, <<>>, "none")
    /\ files = NoFiles
    /\ threads = NoThreads
    /\ NoBlender

\* config.generate_part_color_pairs()
GeneratePairs ==
    LET r == GeneratePartColorPairs(config, rng)
    IN  /\ rng' = r.rng
        /\ ret' = Return("generate_part_color_pairs", <<>>, r.val, r.err)
        /\ UNCHANGED <<items, config, files, threads, props, cache, bpy>>

NextConfig == GeneratePairs

SpecConfig == InitConfig /\ [][NextConfig]_vars

\* ----------------------------------------------------- export and import
\* the mappings WeightedDistribution.from_dict is given besides an export:
\* an older file's (no weight), and three that lack a required key
DistributionDicts ==
    {[items |-> <<[id |-> "A", name |-> "Alpha"]>>],
     EmptyDict,
     [items |-> <<[name |-> "Alpha", weight |-> One]>>],
     [items |-> <<[id |-> "A", name |-> "Alpha", weight |-> One], [id |-> "B"]>>],
     [items |-> <<[id |-> "B", name |-> "Beta", weight |-> 0 - One]>>]}

\* the mappings DistributionConfig.from_dict is given besides an export: an
\* older file's (no total_pieces, no seed), and four that lack a required key
ConfigDicts ==
    {[parts |-> [items |-> <<>>], colors |-> [items |-> <<>>]],
     [parts |-> [items |-> <<[id |-> "A", name |-> "Alpha"]>>],
      colors |-> [items |-> <<>>]],
     EmptyDict,
     [parts |-> [items |-> <<>>]],
     [parts |-> EmptyDict, colors |-> [items |-> <<>>]],
     [parts |-> [items |-> <<>>], colors |-> [items |-> <<[id |-> "4"]>>]]}

\* D.to_dict()
ToDict ==
    /\ ret' = Return("to_dict", <<>>, DistributionToDict(items), "none")
    /\ UNCHANGED <<items, config, rng, files, threads, props, cache, bpy>>

\* D = WeightedDistribution.from_dict(data); data is the mapping to_dict has
\* just returned, or one of DistributionDicts.  When the call raises, D stays
\* bound to the object it was.
FromDict ==
    \E data \in DistributionDicts \cup (IF ret.op = "to_dict" THEN {ret.val} ELSE {}) :
        LET r == DistributionFromDictResult(data)
        IN  /\ items' = IF r.err = "none" THEN r.val ELSE items
            /\ ret' = Return("from_dict", data, r.val, r.err)
            /\ UNCHANGED <<config, rng, files, threads, props, cache, bpy>>

\* config.to_dict()
ConfigToDictCall ==
    /\ ret' = Return("config_to_dict", <<>>, ConfigToDict(config), "none")
    /\ UNCHANGED <<items, config, rng, files, threads, props, cache, bpy>>

\* config = DistributionConfig.from_dict(data)
ConfigFromDict ==
    \E data \in ConfigDicts \cup (IF ret.op = "config_to_dict" THEN {ret.val} ELSE {}) :
        LET r == ConfigFromDictResult(data)
        IN  /\ config' = IF r.err = "none" THEN r.val ELSE config
            /\ ret' = Return("config_from_dict", data, r.val, r.err)
            /\ UNCHANGED <<items, rng, files, threads, props, cache, bpy>>

\* Export and import of one distribution D and of one configuration.  Either
\* D is any constructed distribution, or the configuration is any constructed
\* one.  Nothing here reads the generator.
InitExport ==
    /\ \/ /\ items \in InitialItems
          /\ config = DistributionConfig(<<>>, <<>>, DefaultTotalPieces, None)
       \/ /\ items = <<>>
          /\ config \in {DistributionConfig(pd, cd, tp, sd) :
                             pd \in ListsUpTo(PartItems, MaxItems),
                             cd \in ListsUpTo(ColorItems, MaxItems),
                             tp \in Counts, sd \in Seeds}
    /\ rng = RandomSeed(0)
    /\ ret = Return("init", <<>>, <<>>, "none")
    /\ files = NoFiles
    /\ threads = NoThreads
    /\ NoBlender

NextExport == ToDict \/ FromDict \/ ConfigToDictCall \/ ConfigFromDict

SpecExport == InitExport /\ [][NextExport]_vars

\* ---------------------------------------------------------- save and load
\* what a path may hold before the first save: nothing, an empty file, the
\* text {} and a text cut short
FileTexts == {<<>>, <<LBrace, RBrace>>, <<LBrace, JStr("items"), Colon>>}

\* how far a save gets: not opened, opened and nothing written, cut short
\* half way, written in full
WritePoints(text) == {0 - 1, 0, Len(text) \div 2, Len(text)}

\* D.save(filepath)
Save ==
    \E p \in Paths :
        LET text == JsonDistribution(DistributionToDict(items))
        IN  \E written \in WritePoints(text) :
                LET r == SaveTo(files[p], text, written)
                IN  /\ files' = [files EXCEPT ![p] = r.file]
                    /\ ret' = Return("save", [filepath |-> p], <<>>, r.err)
                    /\ UNCHANGED <<items, config, rng, threads, props, cache, bpy>>

\* D = WeightedDistribution.load(filepath)
Load ==
    \E p \in Paths, denied \in BOOLEAN :
        LET r == LoadDistribution(files[p], denied)
        IN  /\ items' = IF r.err = "none" THEN r.val ELSE items
            /\ ret' = Return("load", [filepath |-> p], r.val, r.err)
            /\ UNCHANGED <<config, rng, files, threads, props, cache, bpy>>

\* config.save(filepath)
ConfigSave ==
    \E p \in Paths :
        LET text == JsonConfig(ConfigToDict(config))
        IN  \E written \in WritePoints(text) :
                LET r == SaveTo(files[p], text, written)
                IN  /\ files' = [files EXCEPT ![p] = r.file]
                    /\ ret' = Return("config_save", [filepath |-> p], <<>>, r.err)
                    /\ UNCHANGED <<items, config, rng, threads, props, cache, bpy>>

\* config = DistributionConfig.load(filepath)
ConfigLoad ==
    \E p \in Paths, denied \in BOOLEAN :
        LET r == LoadConfig(files[p], denied)
        IN  /\ config' = IF r.err = "none" THEN r.val ELSE config
            /\ ret' = Return("config_load", [filepath |-> p], r.val, r.err)
            /\ UNCHANGED <<items, rng, files, threads, props, cache, bpy>>

\* Saving and loading one distribution D and one configuration, which may
\* share a path.  Nothing here reads the generator.
InitFile ==
    /\ \/ /\ items \in InitialItems
          /\ config = DistributionConfig(<<>>, <<>>, DefaultTotalPieces, None)
       \/ /\ items = <<>>
          /\ config \in {DistributionConfig(pd, cd, tp, sd) :
                             pd \in ListsUpTo(PartItems, MaxItems),
                             cd \in {<<>>} \cup {<<c>> : c \in ColorItems},
                             tp \in Counts, sd \in Seeds}
    /\ rng = RandomSeed(0)
    /\ ret = Return("init", <<>>, <<>>, "none")
    /\ files \in [Paths -> {None} \cup {Some(t) : t \in FileTexts}]
    /\ threads = NoThreads
    /\ NoBlender

NextFile == Save \/ Load \/ ConfigSave \/ ConfigLoad

SpecFile == InitFile /\ [][NextFile]_vars

\* ------------------------------------------------------ sample in threads
\* Two threads, each calling sample(count, seed) once on a distribution of
\* its own.  The module takes no lock, so a thread can be switched out
\* between random.seed and a draw and between two draws.
Threads == {1, 2}

\* a thread about to call sample(count, seed) on its distribution; disturbed
\* records that the other thread has written the generator since this one
\* seeded it
ThreadCall(its, count, sd) ==
    [pc |-> "start", items |-> its, count |-> count, seed |-> sd,
     result |-> <<>>, disturbed |-> FALSE]

\* thread u after thread t has written the generator
Disturb(t, u, th) ==
    IF u # t /\ th.pc = "draw" THEN [th EXCEPT !.disturbed = TRUE] ELSE th

\* thread t runs sample() up to its first draw: return [] for an empty
\* distribution, else random.seed(seed) when a seed is given
ThreadSeed(t) ==
    /\ threads[t].pc = "start"
    /\ LET me == threads[t]
       IN  IF me.items = <<>>
           THEN /\ threads' = [threads EXCEPT ![t].pc = "done"]
                /\ rng' = rng
           ELSE /\ rng' = SampleGenerator(me.seed, rng)
                /\ threads' = [u \in Threads |->
                      IF u = t
                      THEN [me EXCEPT !.pc = IF me.count <= 0 THEN "done" ELSE "draw"]
                      ELSE IF me.seed # None THEN Disturb(t, u, threads[u])
                      ELSE threads[u]]
    /\ UNCHANGED <<items, config, ret, files, props, cache, bpy>>

\* thread t draws its next item; after the last one sample() returns
ThreadDraw(t) ==
    /\ threads[t].pc = "draw"
    /\ LET me == threads[t]
           r == SampleDraw(me.items, rng)
           result == me.result \o r.val
       IN  /\ rng' = r.rng
           /\ threads' = [u \in Threads |->
                 IF u = t
                 THEN [me EXCEPT !.result = result,
                                 !.pc = IF Len(result) >= me.count THEN "done"
                                        ELSE "draw"]
                 ELSE Disturb(t, u, threads[u])]
    /\ UNCHANGED <<items, config, ret, files, props, cache, bpy>>

InitThreads ==
    /\ items = <<>>
    /\ config = DistributionConfig(<<>>, <<>>, DefaultTotalPieces, None)
    /\ rng = RandomSeed(0)
    /\ ret = Return("init", <<>>, <<>>, "none")
    /\ files = NoFiles
    /\ \E ps \in ListsUpTo(PartItems, MaxItems),
          cs \in {cd \in ColorItems \X ColorItems : cd[1] # cd[2]},
          pc \in Counts, cc \in Counts, psd \in Seeds, csd \in Seeds :
           threads = [t \in Threads |->
                         IF t = 1 THEN ThreadCall(ps, pc, psd)
                         ELSE ThreadCall(cs, cc, csd)]
    /\ NoBlender

NextThreads == \E t \in Threads : ThreadSeed(t) \/ ThreadDraw(t)

SpecThreads == InitThreads /\ [][NextThreads]_vars

\* ------------------------------------------------------------ every read
\* mutant of ExpectedCounts: the normalized weights are stored back into the
\* items while the counts are computed
ExpectedCountsNormalizing ==
    \E total \in Totals :
        /\ ret' = Return("get_expected_counts", [total |-> total],
                         GetExpectedCounts(items, total), "none")
        /\ items' = IF GetNormalizedWeights(items) = <<>> THEN items
                     ELSE [i \in 1 .. Len(items) |->
                              [items[i] EXCEPT !.weight = GetNormalizedWeights(items)[i]]]
        /\ UNCHANGED <<config, rng, files, threads, props, cache, bpy>>

\* D.get_expected_counts(total)
ExpectedCounts ==
    \E total \in Totals :
        /\ ret' = Return("get_expected_counts", [total |-> total],
                         GetExpectedCounts(items, total), "none")
        /\ UNCHANGED <<items, config, rng, files, threads, props, cache, bpy>>

\* get_expected_counts of one distribution D: an imported one (weights 0,
\* duplicate ids) or one of equally weighted colours
InitCounts ==
    /\ items \in InitialItems \cup ListsUpTo(ColorItems, MaxItems)
    /\ config = DistributionConfig(<<>>, <<>>, DefaultTotalPieces, None)
    /\ rng = RandomSeed(0)
    /\ ret = Return("init", <<>>, <<>>, "none")
    /\ files = NoFiles
    /\ threads = NoThreads
    /\ NoBlender

NextCounts == ExpectedCounts

SpecCounts == InitCounts /\ [][NextCounts]_vars

\* the first k parts of a list that takes the two catalogue bricks in turn,
\* with weights 1.0, 2.0, ...
FirstParts(k) ==
    [i \in 1 .. k |->
        IF i % 2 = 1 THEN DistributionItem("3001", "Brick 2x4", i * One)
        ELSE DistributionItem("3002", "Brick 2x3", i * One)]

\* the two catalogue colours, equally weighted
BothColors ==
    <<DistributionItem("4", "Red", One), DistributionItem("1", "Blue", One)>>

\* Every operation that reads: those of a distribution D and those of a
\* configuration whose part distribution has the same items as D.
InitRead ==
    /\ items \in {FirstParts(k) : k \in 0 .. MaxItems}
    /\ config \in {DistributionConfig(items, BothColors, tp, sd) :
                       tp \in Counts, sd \in Seeds}
    /\ rng \in RngStates
    /\ ret = Return("init", <<>>, <<>>, "none")
    /\ files = NoFiles
    /\ threads = NoThreads
    /\ NoBlender

NextRead ==
    \/ NormalizedWeights
    \/ Sample
    \/ ExpectedCounts
    \/ ToDict
    \/ GeneratePairs
    \/ ConfigToDictCall

SpecRead == InitRead /\ [][NextRead]_vars

\* ------------------------------------------------- the distribution panel
Range(f) == {f[i] : i \in DOMAIN f}

\* A FloatProperty(min=0.0, max=10.0) stores a single-precision float:
\* assigning clamps the value to the range and rounds it to a significand
\* shorter than the one Python computes with (24 bits against 53; here one
\* bit less than Precision).  Reading it back is exact.
SinglePrecision == Precision - 1

RoundToSingle(num, den) ==
    LET quantum == Pow2(BitLen(num \div den) - SinglePrecision)
    IN  RoundHalfEven(num, den * quantum) * quantum

FloatProperty(x) ==
    LET hi == RoundToSingle(10 * One, 1)
        single == RoundToSingle(IF x < 0 THEN 0 ELSE x, 1)
    IN  IF single > hi THEN hi ELSE single

PartDistributionItem(part_id, part_name, weight) ==
    [part_id |-> part_id, part_name |-> part_name, weight |-> FloatProperty(weight)]

ColorDistributionItem(color_id, color_name, weight) ==
    [color_id |-> color_id, color_name |-> color_name, weight |-> FloatProperty(weight)]

\* the float written d/10 in the source
Tenths(d) == RoundToFloat(d * One, 10)

\* common_parts and common_colors of initialize_default_distributions
CommonParts ==
    <<PartDistributionItem("3001", "Brick 2x4", One),
      PartDistributionItem("3002", "Brick 2x3", Tenths(8)),
      PartDistributionItem("3003", "Brick 2x2", Tenths(9)),
      PartDistributionItem("3004", "Brick 1x2", One),
      PartDistributionItem("3005", "Brick 1x1", Tenths(7)),
      PartDistributionItem("3021", "Plate 2x3", Tenths(6)),
      PartDistributionItem("3022", "Plate 2x2", Tenths(7)),
      PartDistributionItem("3023", "Plate 1x2", Tenths(8)),
      PartDistributionItem("3024", "Plate 1x1", Tenths(5))>>

CommonColors ==
    <<ColorDistributionItem("4", "Red", One),
      ColorDistributionItem("1", "Blue", One),
      ColorDistributionItem("2", "Green", Tenths(8)),
      ColorDistributionItem("14", "Yellow", Tenths(9)),
      ColorDistributionItem("0", "Black", Tenths(7)),
      ColorDistributionItem("15", "White", Tenths(7)),
      ColorDistributionItem("72", "Dark Gray", Tenths(5))>>

\* bpy_prop_collection.remove(index), index counted from 0: the entry at the
\* index goes when there is one; otherwise nothing goes, and Blender either
\* returns or raises
CollectionHas(list, index) == 0 <= index /\ index < Len(list)

CollectionRemove(list, index) ==
    IF CollectionHas(list, index)
    THEN SubSeq(list, 1, index) \o SubSeq(list, index + 2, Len(list))
    ELSE list

Min(a, b) == IF a < b THEN a ELSE b

\* BRICKSCOPE_OT_add_part.execute
AddPart ==
    /\ props' = [props EXCEPT
                    !.parts = Append(@, PartDistributionItem("3001", "New Part", One)),
                    !.parts_active_index = (Len(props.parts) + 1) - 1]
    /\ ret' = Return("add_part", <<>>, "FINISHED", "none")
    /\ UNCHANGED <<items, config, rng, files, threads, cache>>

\* BRICKSCOPE_OT_remove_part: poll, then execute
RemovePart ==
    /\ Len(props.parts) > 0
    /\ LET list == CollectionRemove(props.parts, props.parts_active_index)
       IN  \/ /\ props' = [props EXCEPT
                              !.parts = list,
                              !.parts_active_index = Min(@, Len(list) - 1)]
              /\ ret' = Return("remove_part", <<>>, "FINISHED", "none")
           \/ /\ ~CollectionHas(props.parts, props.parts_active_index)
              /\ props' = props
              /\ ret' = Return("remove_part", <<>>, <<>>, "TypeError")
    /\ UNCHANGED <<items, config, rng, files, threads, cache>>

\* BRICKSCOPE_OT_add_color.execute
AddColor ==
    /\ props' = [props EXCEPT
                    !.colors = Append(@, ColorDistributionItem("4", "New Color", One)),
                    !.colors_active_index = (Len(props.colors) + 1) - 1]
    /\ ret' = Return("add_color", <<>>, "FINISHED", "none")
    /\ UNCHANGED <<items, config, rng, files, threads, cache>>

\* BRICKSCOPE_OT_remove_color: poll, then execute
RemoveColor ==
    /\ Len(props.colors) > 0
    /\ LET list == CollectionRemove(props.colors, props.colors_active_index)
       IN  \/ /\ props' = [props EXCEPT
                              !.colors = list,
                              !.colors_active_index = Min(@, Len(list) - 1)]
              /\ ret' = Return("remove_color", <<>>, "FINISHED", "none")
           \/ /\ ~CollectionHas(props.colors, props.colors_active_index)
              /\ props' = props
              /\ ret' = Return("remove_color", <<>>, <<>>, "TypeError")
    /\ UNCHANGED <<items, config, rng, files, threads, cache>>

\* initialize_default_distributions: both lists are cleared and refilled;
\* the active indices are not written
InitializeDefaultDistributions(p) ==
    [p EXCEPT !.parts = CommonParts, !.colors = CommonColors]

\* BRICKSCOPE_OT_initialize_defaults.execute
InitializeDefaults ==
    /\ props' = InitializeDefaultDistributions(props)
    /\ ret' = Return("initialize_defaults", <<>>, "FINISHED", "none")
    /\ UNCHANGED <<items, config, rng, files, threads, cache>>

\* the weights of a list of the panel, as Python reads them
WeightsOf(list) == [i \in 1 .. Len(list) |-> list[i].weight]

\* mutant of NormalizedList: every weight is divided by the largest one
NormalizedListByMax(list) ==
    LET top == CHOOSE w \in Range(WeightsOf(list)) :
                   \A v \in Range(WeightsOf(list)) : v <= w
    IN  [i \in 1 .. Len(list) |->
            [list[i] EXCEPT !.weight = FloatProperty(FDiv(list[i].weight, top))]]

\* the loop of BRICKSCOPE_OT_normalize_weights.execute: item.weight =
\* item.weight / total, total being the sum taken before the loop
NormalizedList(list) ==
    LET total == FSum(WeightsOf(list))
    IN  [i \in 1 .. Len(list) |->
            [list[i] EXCEPT !.weight = FloatProperty(FDiv(list[i].weight, total))]]

\* BRICKSCOPE_OT_normalize_weights.execute
NormalizeWeights ==
    \E distribution_type \in {"PARTS", "COLORS"} :
        LET list == IF distribution_type = "PARTS" THEN props.parts ELSE props.colors
            total == FSum(WeightsOf(list))
        IN  /\ IF total = 0
               THEN /\ props' = props
                    /\ ret' = Return("normalize_weights", distribution_type,
                                     "CANCELLED", "none")
               ELSE /\ props' = IF distribution_type = "PARTS"
                                 THEN [props EXCEPT !.parts = NormalizedList(list)]
                                 ELSE [props EXCEPT !.colors = NormalizedList(list)]
                    /\ ret' = Return("normalize_weights", distribution_type,
                                     "FINISHED", "none")
            /\ UNCHANGED <<items, config, rng, files, threads, cache>>

\* the panel of a new scene
InitPanel ==
    /\ items = <<>>
    /\ config = DistributionConfig(<<>>, <<>>, DefaultTotalPieces, None)
    /\ rng = RandomSeed(0)
    /\ ret = Return("init", <<>>, <<>>, "none")
    /\ files = NoFiles
    /\ threads = NoThreads
    /\ NoBlender

\* the weight slider of the active entry of a list is set to 0.0 or to 2.0
EditWeight ==
    \E distribution_type \in {"PARTS", "COLORS"}, weight \in {0, 2 * One} :
        /\ IF distribution_type = "PARTS"
           THEN /\ CollectionHas(props.parts, props.parts_active_index)
                /\ props' = [props EXCEPT
                                !.parts[props.parts_active_index + 1].weight =
                                    FloatProperty(weight)]
           ELSE /\ CollectionHas(props.colors, props.colors_active_index)
                /\ props' = [props EXCEPT
                                !.colors[props.colors_active_index + 1].weight =
                                    FloatProperty(weight)]
        /\ ret' = Return("weight", <<distribution_type, weight>>, <<>>, "none")
        /\ UNCHANGED <<items, config, rng, files, threads, cache>>

\* what has run pushes an undo step (bl_options UNDO; an edit of a
\* property), unless it was cancelled or raised
Registered ==
    /\ bpy.undo_steps < MaxUndoSteps
    /\ bpy' = [bpy EXCEPT !.undo_steps =
                  IF ret'.val = "CANCELLED" \/ ret'.err # "none" THEN @ ELSE @ + 1]

NextPanel ==
    \/ AddPart /\ Registered
    \/ RemovePart /\ Registered
    \/ AddColor /\ Registered
    \/ RemoveColor /\ Registered
    \/ InitializeDefaults /\ Registered
    \/ NormalizeWeights /\ Registered
    \/ EditWeight /\ Registered

SpecPanel == InitPanel /\ [][NextPanel]_vars

\* ------------------------------------------------------- bake_distribution
\* int(color_id), for the colour codes of the presets
IntOf(color_id) ==
    CASE color_id = "0" -> 0
      [] color_id = "1" -> 1
      [] color_id = "2" -> 2
      [] color_id = "4" -> 4
      [] color_id = "14" -> 14
      [] color_id = "15" -> 15
      [] color_id = "72" -> 72

\* LDrawImporter.import_part returns an object: ldr_tools_blender is there,
\* the library path is set and holds the part's file.  (That the library
\* folder is missing, or that the import operator raises, counts here as the
\* file not being there.)
ImportPart(part_id) ==
    /\ bpy.has_ldr_tools
    /\ bpy.ldraw_library_path # ""
    /\ part_id \in bpy.part_files

\* four calls of random.uniform: location z and the three rotation angles
RECURSIVE Uniforms(_, _)
Uniforms(n, g) == IF n = 0 THEN g ELSE Uniforms(n - 1, RandomRandom(g).rng)

\* mutant of BakePart: import_part is called without asking the cache
BakePartNoCache(key, st) ==
    LET called == [st EXCEPT !.import_part = Append(@, key)]
    IN  IF ~ImportPart(key[1]) /\ key \notin st.cache THEN called
        ELSE [called EXCEPT !.cache = @ \cup {key},
                            !.rng = Uniforms(4, @),
                            !.create_instance = Append(@, key)]

\* one round of the loop of bake_distribution, for the pair with cache key
\* key: st holds the keys cached, the calls of import_part and of
\* create_instance that returned an instance, and the generator
BakePart(key, st) ==
    IF key \in st.cache
    THEN [st EXCEPT !.rng = Uniforms(4, @),
                    !.create_instance = Append(@, key)]
    ELSE LET called == [st EXCEPT !.import_part = Append(@, key)]
         IN  IF ~ImportPart(key[1]) THEN called
             ELSE [called EXCEPT !.cache = @ \cup {key},
                                 !.rng = Uniforms(4, @),
                                 !.create_instance = Append(@, key)]

RECURSIVE BakeLoop(_, _, _)
BakeLoop(pairs, idx, st) ==
    IF idx > Len(pairs) THEN st
    ELSE BakeLoop(pairs, idx + 1,
                  BakePart(<<pairs[idx][1], IntOf(pairs[idx][2])>>, st))

\* the DistributionConfig bake_distribution builds from the panel
BakeConfig(p) ==
    DistributionConfig(
        [i \in 1 .. Len(p.parts) |->
            DistributionItem(p.parts[i].part_id, p.parts[i].part_name, p.parts[i].weight)],
        [i \in 1 .. Len(p.colors) |->
            DistributionItem(p.colors[i].color_id, p.colors[i].color_name,
                             p.colors[i].weight)],
        p.total_pieces,
        IF p.random_seed > 0 THEN Some(p.random_seed) ELSE None)

\* get_part_cache: the global cache, made on first use together with its
\* collection
CacheCollection == "BrickScope_PartCache"
GetPartCache(c) == IF c = None THEN Some({}) ELSE c

\* BRICKSCOPE_OT_bake_distribution.execute
BakeDistribution ==
    /\ bpy.undo_steps < MaxUndoSteps
    /\ IF Len(props.parts) = 0 \/ Len(props.colors) = 0 \/ bpy.ldraw_library_path = ""
       THEN /\ ret' = Return("bake_distribution", <<>>, "CANCELLED", "none")
            /\ UNCHANGED <<rng, cache, bpy>>
       ELSE LET r == GeneratePartColorPairs(BakeConfig(props), rng)
                made == [bpy EXCEPT !.collections =
                            IF cache = None THEN @ \cup {CacheCollection} ELSE @]
                st == BakeLoop(r.val, 1,
                               [cache |-> GetPartCache(cache)[1],
                                import_part |-> bpy.import_part,
                                create_instance |-> bpy.create_instance,
                                rng |-> r.rng])
            IN  IF r.err # "none"
                THEN /\ ret' = Return("bake_distribution", <<>>, <<>>, r.err)
                     /\ rng' = r.rng
                     /\ UNCHANGED <<cache, bpy>>
                ELSE IF ~bpy.has_ldr_tools
                THEN /\ ret' = Return("bake_distribution", <<>>, "CANCELLED", "none")
                     /\ rng' = r.rng
                     /\ cache' = GetPartCache(cache)
                     /\ bpy' = made
                ELSE /\ ret' = Return("bake_distribution", <<>>, "FINISHED", "none")
                     /\ rng' = st.rng
                     /\ cache' = Some(st.cache)
                     /\ bpy' = [made EXCEPT !.import_part = st.import_part,
                                            !.create_instance = st.create_instance,
                                            !.undo_steps = @ + 1]
    /\ UNCHANGED <<items, config, files, threads, props>>

\* the first k presets of each list
PanelParts(k) == SubSeq(CommonParts, 1, k)
PanelColors(k) == SubSeq(CommonColors, 1, k)

\* whether the preferences name an LDraw library, whether ldr_tools_blender
\* is installed, and the part files the library holds
Installations ==
    {[ldraw_library_path |-> "", has_ldr_tools |-> TRUE],
     [ldraw_library_path |-> "~/ldraw", has_ldr_tools |-> FALSE],
     [ldraw_library_path |-> "~/ldraw", has_ldr_tools |-> TRUE]}

Libraries == {{}, {"3001"}, {"3001", "3002", "3003"}}

\* bake_distribution in a scene whose panel holds some parts and colours;
\* the panel's draw may have made the global cache already
InitBake ==
    /\ items = <<>>
    /\ config = DistributionConfig(<<>>, <<>>, DefaultTotalPieces, None)
    /\ rng \in {RandomSeed(0), RandomSeed(1)}
    /\ ret = Return("init", <<>>, <<>>, "none")
    /\ files = NoFiles
    /\ threads = NoThreads
    /\ \E np \in 0 .. MaxItems, nc \in 0 .. MaxItems,
          tp \in 1 .. MaxCount, sd \in 0 .. MaxSeed :
           props = [NoProps EXCEPT !.parts = PanelParts(np), !.colors = PanelColors(nc),
                                   !.total_pieces = tp, !.random_seed = sd]
    /\ \/ cache = None /\ \E inst \in Installations, lib \in Libraries :
              bpy = [NoBpy EXCEPT !.ldraw_library_path = inst.ldraw_library_path,
                                  !.has_ldr_tools = inst.has_ldr_tools,
                                  !.part_files = lib]
       \/ cache = Some({}) /\ \E inst \in Installations :
              bpy = [NoBpy EXCEPT !.ldraw_library_path = inst.ldraw_library_path,
                                  !.has_ldr_tools = inst.has_ldr_tools,
                                  !.part_files = {"3001"},
                                  !.collections = {CacheCollection}]

NextBake == BakeDistribution

SpecBake == InitBake /\ [][NextBake]_vars

\* ------------------------------------------------------------- properties

\* the exact (unrounded) sum of a list of floats, in units
RECURSIVE ExactSum(_)
ExactSum(ws) == IF Len(ws) = 0 THEN 0
                ELSE ExactSum(SubSeq(ws, 1, Len(ws) - 1)) + ws[Len(ws)]

Abs(x) == IF x < 0 THEN 0 - x ELSE x

\* machine epsilon of the format, 2^(1 - Precision), in units
Epsilon == One \div Pow2(Precision - 1)

IdsOf(its) == {its[i].id : i \in 1 .. Len(its)}

DrawnFrom(its, count, g) == SampleResult(its, count, None, g)

\* C2: seeded sampling is deterministic.  From whatever state the
\* process-global generator is in, a call sample(n, seed=S) with S not None
\* returns the list drawn from the state seed(S) leaves, and a second call
\* with the same arguments on the unchanged distribution returns the list the
\* first one returned.
C2_SeededDeterminism ==
    [][(ret'.op = "sample" /\ ret'.args.seed # None) =>
          /\ ret'.val = DrawnFrom(items, ret'.args.count,
                                  RandomSeed(ret'.args.seed[1])).val
          /\ (ret.op = "sample" /\ ret.args = ret'.args /\ items' = items)
                => ret'.val = ret.val]_vars

C2_Witness ==
    /\ ret.op = "sample"
    /\ ret.args.seed # None
    /\ ret.args.count = MaxCount
    /\ Len(ret.val) = MaxCount
    /\ \E g \in RngStates :
           SampleResult(items, MaxCount, None, g).val # ret.val

C4_SeedOffset ==
    [][ret'.op = "generate_part_color_pairs" =>
          LET pd == config.part_distribution
              cd == config.color_distribution
              tp == config.total_pieces
          IN  IF config.seed # None
              THEN /\ ret'.val =
                          ZipIds(DrawnFrom(pd, tp, RandomSeed(config.seed[1])).val,
                                 DrawnFrom(cd, tp, RandomSeed(config.seed[1] + 1)).val)
                   /\ ret.op = "generate_part_color_pairs" => ret'.val = ret.val
              ELSE /\ ret'.val =
                          ZipIds(DrawnFrom(pd, tp, rng).val,
                                 DrawnFrom(cd, tp, DrawnFrom(pd, tp, rng).rng).val)
                   /\ rng' = DrawnFrom(cd, tp, DrawnFrom(pd, tp, rng).rng).rng]_vars

C4_Witness ==
    /\ ret.op = "generate_part_color_pairs"
    /\ config.seed # None
    /\ Len(ret.val) = MaxCount
    /\ \E i, j \in 1 .. MaxCount :
           ret.val[i][1] # ret.val[j][1] \/ ret.val[i][2] # ret.val[j][2]
    /\ ret.val # ZipIds(DrawnFrom(config.part_distribution, MaxCount,
                                  RandomSeed(config.seed[1])).val,
                        DrawnFrom(config.color_distribution, MaxCount,
                                  RandomSeed(config.seed[1])).val)

C6_WeightsNonNegative ==
    /\ \A i \in 1 .. Len(items) : items[i].weight >= 0
    /\ (ret.op = "add_item" /\ ret.args.weight < 0) =>
           /\ ret.err = "none"
           /\ items[Len(items)].weight = 0
    /\ (ret.op = "set_weight" /\ ret.args.weight < 0
            /\ GetItemIndex(items, ret.args.id) # 0) =>
           /\ ret.err = "none"
           /\ items[GetItemIndex(items, ret.args.id)].weight = 0

C6_Witness ==
    /\ ret.op = "set_weight"
    /\ ret.args.weight < 0
    /\ Len(items) = MaxItems
    /\ GetItemIndex(items, ret.args.id) = MaxItems
    /\ items[MaxItems].weight = 0
    /\ items[1].weight > 0

\* C7: when the total weight is greater than 0, no item of weight 0 is in
\* the list sample returns.
C7_ZeroWeightNeverDrawn ==
    (ret.op = "sample" /\ TotalWeight(items) > 0) =>
        \A k \in 1 .. Len(ret.val) : ret.val[k].weight > 0

C7_Witness ==
    /\ ret.op = "sample"
    /\ TotalWeight(items) > 0
    /\ items[Len(items)].weight = 0
    /\ ret.args.count = MaxCount
    /\ Len(ret.val) = MaxCount

\* C8: from a non-empty distribution whose weights are all 0, sample(count,
\* seed) raises nothing and returns count items of the distribution, and no
\* item is excluded: each item is returned at each position from some state
\* of the generator.
C8_UniformFallback ==
    (ret.op = "sample" /\ items # <<>> /\ TotalWeight(items) = 0) =>
        /\ ret.err = "none"
        /\ Len(ret.val) = ret.args.count
        /\ \A k \in 1 .. Len(ret.val) : ret.val[k] \in Range(items)
        /\ LET lists == {DrawnFrom(items, ret.args.count, g).val : g \in RngStates}
           IN  \A k \in 1 .. ret.args.count : \A j \in 1 .. Len(items) :
                   \E l \in lists : l[k] = items[j]

C8_Witness ==
    /\ ret.op = "sample"
    /\ Len(items) = MaxItems
    /\ TotalWeight(items) = 0
    /\ ret.args.count = MaxCount
    /\ Len(ret.val) = MaxCount
    /\ ret.val[1] # ret.val[MaxCount]

\* C9: get_normalized_weights returns the empty list whenever the weights sum
\* to exactly 0, the distribution without items included.
C9_DegenerateNormalization ==
    (ret.op = "get_normalized_weights" /\ ExactSum(Weights(items)) = 0) =>
        ret.val = <<>>

C9_Witness ==
    /\ ret.op = "get_normalized_weights"
    /\ Len(items) = MaxItems
    /\ ExactSum(Weights(items)) = 0
    /\ ret.val = <<>>

\* C10 as stated: with total weight > 0, get_normalized_weights returns one
\* value per item, in item order, the i-th being weight_i / sum(weights), and
\* the values sum to 1.
C10_NormalizedSumsToOne ==
    (ret.op = "get_normalized_weights" /\ TotalWeight(items) > 0) =>
        /\ Len(ret.val) = Len(items)
        /\ \A i \in 1 .. Len(items) :
               ret.val[i] = FDiv(items[i].weight, TotalWeight(items))
        /\ ExactSum(ret.val) = One

\* C10 as amended: with total weight > 0, get_normalized_weights returns one
\* value per item, in item order, the i-th being the float quotient
\* weight_i / sum(weights), and the values sum to 1 up to rounding: the sum
\* is within Len(items) machine epsilons of 1.
C10_NormalizedWithinRounding ==
    (ret.op = "get_normalized_weights" /\ TotalWeight(items) > 0) =>
        /\ Len(ret.val) = Len(items)
        /\ \A i \in 1 .. Len(items) :
               ret.val[i] = FDiv(items[i].weight, TotalWeight(items))
        /\ Abs(ExactSum(ret.val) - One) <= Len(items) * Epsilon

C10_Witness ==
    /\ ret.op = "get_normalized_weights"
    /\ Len(items) = MaxItems
    /\ Len(ret.val) = MaxItems
    /\ ExactSum(ret.val) # One

\* C11: importing what export returned gives back the same fields: for a
\* distribution the same items in the same order, each with the same id, name
\* and weight (so for every item too), and for a configuration also the same
\* total_pieces and seed, a total_pieces of 0 and a seed of None included
C11_ExportImportRoundTrip ==
    [][/\ (ret.op = "to_dict" /\ ret'.op = "from_dict" /\ ret'.args = ret.val) =>
           /\ ret'.err = "none"
           /\ ret'.val = items
           /\ items' = items
           /\ \A i \in 1 .. Len(items) :
                  ItemFromDictResult(ItemToDict(items[i])) = Returned(items[i])
       /\ (ret.op = "config_to_dict" /\ ret'.op = "config_from_dict"
              /\ ret'.args = ret.val) =>
           /\ ret'.err = "none"
           /\ ret'.val = config
           /\ config' = config]_vars

\* a configuration with total_pieces = 0, seed None and two parts has been
\* exported and imported again, and so has a distribution with a zero weight
C11_Witness ==
    /\ ret.op = "config_from_dict" /\ ret.err = "none"
    /\ "seed" \in DOMAIN ret.args
    /\ ret.args = ConfigToDict(config)
    /\ config.total_pieces = 0 /\ config.seed = None
    /\ Len(config.part_distribution) = 2

\* C12: a load that follows a successful save to the same path, whatever the
\* path held before (an earlier save, of the other kind of object too, or a
\* text cut short), fails only if the file cannot be opened for reading, and
\* otherwise returns an object whose export equals the export of the object
\* that was saved
C12_FileRoundTrip ==
    [][/\ (ret.op = "save" /\ ret.err = "none" /\ ret'.op = "load"
              /\ ret'.args = ret.args) =>
           /\ ret'.err \in {"none", "PermissionError"}
           /\ ret'.err = "none" =>
                  DistributionToDict(ret'.val) = DistributionToDict(items)
       /\ (ret.op = "config_save" /\ ret.err = "none" /\ ret'.op = "config_load"
              /\ ret'.args = ret.args) =>
           /\ ret'.err \in {"none", "PermissionError"}
           /\ ret'.err = "none" => ConfigToDict(ret'.val) = ConfigToDict(config)]_vars

\* a distribution of two items with different weights has been saved to a
\* path and loaded back from it
C12_Witness ==
    /\ ret.op = "load" /\ ret.err = "none"
    /\ Len(ret.val) = 2 /\ ret.val[1].weight # ret.val[2].weight
    /\ ret.val = items
    /\ \E p \in Paths : files[p] = Some(JsonDistribution(DistributionToDict(items)))

\* a required key is absent from the mapping given to
\* WeightedDistribution.from_dict: items, or id or name of one of the items
LacksRequiredKey(data) ==
    \/ "items" \notin DOMAIN data
    \/ \E i \in 1 .. Len(data.items) :
           "id" \notin DOMAIN data.items[i] \/ "name" \notin DOMAIN data.items[i]

\* C13: from_dict given a mapping that lacks items, or an item mapping that
\* lacks id or name, raises MissingFieldError to the caller
C13_MissingFieldError ==
    (ret.op = "from_dict" /\ LacksRequiredKey(ret.args)) =>
        ret.err = "MissingFieldError"

\* the file at a path cannot be read as JSON: there is none, or its text is
\* not one JSON value
Unreadable(p) == files[p] = None \/ JsonLoad(files[p][1]).err # "none"

\* C14: load of a path whose file does not exist or does not hold valid
\* JSON raises DistributionFileError
C14_DistributionFileError ==
    (ret.op \in {"load", "config_load"} /\ Unreadable(ret.args.filepath)) =>
        ret.err = "DistributionFileError"

\* C15: a save or a load that raises leaves nothing half done: it returns no
\* object, D and the configuration are as they were, and every file holds
\* what it held before the call
C15_NoPartialSuccess ==
    [][(ret'.op \in {"save", "config_save", "load", "config_load"}
          /\ ret'.err # "none") =>
           /\ ret'.val = <<>>
           /\ items' = items
           /\ config' = config
           /\ files' = files]_vars

\* what the call of thread t returns when it runs alone
RunAlone(t) ==
    SampleResult(threads[t].items, threads[t].count, threads[t].seed, rng).val

\* C16: seeded sampling is not safe under interleaving.  A seeded call
\* returns what it returns when run alone as long as the other thread has
\* not written the shared generator between this call's random.seed and its
\* last draw; C16_Witness is an interleaving in which it has, and in which
\* the returned sequence differs.
C16_SeededUnlessInterleaved ==
    \A t \in Threads :
        (threads[t].pc = "done" /\ threads[t].seed # None /\ ~threads[t].disturbed)
            => threads[t].result = RunAlone(t)

\* a seeded call has returned a sequence that differs from the one it
\* returns when run alone
C16_Witness ==
    \E t \in Threads :
        /\ threads[t].pc = "done" /\ threads[t].seed # None
        /\ threads[t].result # RunAlone(t)

ReadOperations ==
    {"sample", "get_normalized_weights", "get_expected_counts", "to_dict",
     "generate_part_color_pairs", "config_to_dict"}

\* C17: sample, get_normalized_weights, get_expected_counts, to_dict and
\* generate_part_color_pairs leave the items of the distribution (sequence,
\* ids, names, weights) and the configuration (its two distributions,
\* total_pieces, seed) as they were, and no file is written; of these only
\* sample and generate_part_color_pairs can move the generator
C17_ReadsChangeNothing ==
    [][ret'.op \in ReadOperations =>
           /\ items' = items
           /\ config' = config
           /\ files' = files
           /\ (rng' # rng => ret'.op \in {"sample", "generate_part_color_pairs"})]_vars

\* generate_part_color_pairs has drawn pairs from a seeded configuration of
\* two parts and moved the generator
C17_Witness ==
    /\ ret.op = "generate_part_color_pairs"
    /\ Len(ret.val) = MaxCount
    /\ config.seed # None
    /\ rng # RandomSeed(config.seed[1] + 1)
    /\ Len(config.part_distribution) = MaxItems
    /\ items = config.part_distribution

\* the positions of the items with this id, and how many come before i
Matches(its, id) == {i \in 1 .. Len(its) : its[i].id = id}
MatchesBefore(its, id, i) == Cardinality({j \in Matches(its, id) : j < i})

FirstMatch(its, id, i) ==
    i \in Matches(its, id) /\ \A j \in Matches(its, id) : i <= j

\* C19: set_weight(id, w) changes nothing when no item has the id; else it
\* sets the weight of the first item with the id to max(0, w) and leaves
\* every other item, later ones with the same id included, and the order
\* as they were.  get_item(id) returns that first item, or None.
C19_FirstMatch ==
    [][/\ ret'.op = "set_weight" =>
           LET id == ret'.args.id
               w == ret'.args.weight
           IN  /\ Matches(items, id) = {} => items' = items
               /\ \A i \in 1 .. Len(items) : FirstMatch(items, id, i) =>
                      /\ Len(items') = Len(items)
                      /\ items'[i] = [id |-> items[i].id, name |-> items[i].name,
                                      weight |-> IF w > 0 THEN w ELSE 0]
                      /\ \A k \in (1 .. Len(items)) \ {i} : items'[k] = items[k]
       /\ ret'.op = "get_item" =>
           LET id == ret'.args.id
           IN  /\ items' = items
               /\ Matches(items, id) = {} => ret'.val = None
               /\ \A i \in 1 .. Len(items) : FirstMatch(items, id, i) =>
                      ret'.val = Some(items[i])]_vars

\* set_weight has set the first of two items with the same id, and the
\* second has kept another weight
C19_Witness ==
    /\ ret.op = "set_weight"
    /\ Len(items) >= 2
    /\ items[1].id = ret.args.id /\ items[2].id = ret.args.id
    /\ ret.args.weight > 0
    /\ items[1].weight = ret.args.weight
    /\ items[2].weight # ret.args.weight

\* i is the last position of an item with this id
LastMatch(its, id, i) ==
    i \in Matches(its, id) /\ \A j \in Matches(its, id) : j <= i

\* C20 as the specification states it: among several items with the same id
\* the one added last wins: get_item returns it and set_weight changes it
C20_LastAddedWins ==
    [][\A id \in Ids, i \in 1 .. Len(items) :
           (Cardinality(Matches(items, id)) >= 2 /\ LastMatch(items, id, i)) =>
               /\ (ret'.op = "get_item" /\ ret'.args.id = id) =>
                      ret'.val = Some(items[i])
               /\ (ret'.op = "set_weight" /\ ret'.args.id = id) =>
                      items'[i].weight = ClampWeight(ret'.args.weight)]_vars

\* C20 as the code has it: among several items with the same id the one
\* added first wins: get_item returns it, set_weight changes it, and the
\* ones added later keep their weights
C20_FirstAddedWins ==
    [][\A id \in Ids, i \in 1 .. Len(items) :
           (Cardinality(Matches(items, id)) >= 2 /\ FirstMatch(items, id, i)) =>
               /\ (ret'.op = "get_item" /\ ret'.args.id = id) =>
                      ret'.val = Some(items[i])
               /\ (ret'.op = "set_weight" /\ ret'.args.id = id) =>
                      /\ items'[i].weight = ClampWeight(ret'.args.weight)
                      /\ \A j \in Matches(items, id) \ {i} :
                             items'[j].weight = items[j].weight]_vars

\* get_item has returned the first of two items with the same id, whose
\* weight differs from that of the one added last
C20_Witness ==
    /\ ret.op = "get_item"
    /\ Cardinality(Matches(items, ret.args.id)) >= 2
    /\ ret.val = Some(items[1])
    /\ items[1].id = ret.args.id
    /\ \E i \in Matches(items, ret.args.id) : items[i].weight # items[1].weight

\* the sum of the values of a mapping
RECURSIVE SumOf(_)
SumOf(f) ==
    IF DOMAIN f = {} THEN 0
    ELSE LET k == CHOOSE k \in DOMAIN f : TRUE
         IN  f[k] + SumOf([j \in DOMAIN f \ {k} |-> f[j]])

\* the float norm_weight * total of the item at position i
ExpectedShare(its, i, total) ==
    FMul(FDiv(its[i].weight, TotalWeight(its)), IntToFloat(total))

\* n is the integer nearest to the float x, the even one of two equally near
NearestEven(n, x) ==
    /\ 2 * Abs(n * One - x) <= One
    /\ (2 * Abs(n * One - x) = One => n % 2 = 0)

DistinctIds(its) == \A i, j \in 1 .. Len(its) : its[i].id = its[j].id => i = j

\* C21: the keys of get_expected_counts(total) are exactly the ids of the
\* items when the total weight is > 0, items of weight 0 included; the
\* mapping is empty when the total weight is 0 or there is no item
C21_CountKeys ==
    ret.op = "get_expected_counts" =>
        /\ ret.err = "none"
        /\ TotalWeight(items) > 0 => DOMAIN ret.val = IdsOf(items)
        /\ (items = <<>> \/ TotalWeight(items) = 0) => DOMAIN ret.val = {}

\* counts have been computed for a distribution that holds an item of weight
\* 0 beside one of weight > 0
C21_Witness ==
    /\ ret.op = "get_expected_counts"
    /\ Len(items) = MaxItems
    /\ DistinctIds(items)
    /\ \E i \in 1 .. Len(items) : items[i].weight = 0 /\ items[i].id \in DOMAIN ret.val
    /\ ret.args.total > 0

\* C22: with total weight > 0 and distinct ids, each id is mapped to the
\* float (weight / sum(weights)) * total rounded to the nearest integer, a
\* tie going to the even one
C22_RoundHalfEven ==
    (ret.op = "get_expected_counts" /\ TotalWeight(items) > 0 /\ DistinctIds(items)) =>
        \A i \in 1 .. Len(items) :
            NearestEven(ret.val[items[i].id], ExpectedShare(items, i, ret.args.total))

\* a share of exactly 1.5 has been rounded to 2 and, for another total, a
\* share of 0.5 is rounded to 0
C22_Witness ==
    /\ ret.op = "get_expected_counts" /\ TotalWeight(items) > 0 /\ DistinctIds(items)
    /\ \E i \in 1 .. Len(items) :
           /\ 2 * ExpectedShare(items, i, ret.args.total) = 3 * One
           /\ ret.val[items[i].id] = 2
           /\ 2 * ExpectedShare(items, i, 1) = One
           /\ GetExpectedCounts(items, 1)[items[i].id] = 0

\* C23: the counts need not sum to total.  Each count is within 1/2 of its
\* item's float share, so the sum stays within the number of items of total;
\* C23_Witness is a distribution whose counts sum to more than one total and
\* to less than another.
C23_SumNearTotal ==
    (ret.op = "get_expected_counts" /\ TotalWeight(items) > 0 /\ DistinctIds(items)) =>
        Abs(SumOf(ret.val) - ret.args.total) <= Len(items)

\* the counts of a distribution with distinct ids sum to more than the total
\* given, and for another total its counts sum to less
C23_Witness ==
    /\ ret.op = "get_expected_counts" /\ TotalWeight(items) > 0 /\ DistinctIds(items)
    /\ SumOf(ret.val) > ret.args.total
    /\ \E t \in Totals : SumOf(GetExpectedCounts(items, t)) < t

\* C30: with duplicate ids and total weight > 0 there is one entry per
\* distinct id, and its value is the rounded share of the last item with
\* that id: the shares of earlier items with the id are neither kept nor added
C30_LastDuplicateCounts ==
    (ret.op = "get_expected_counts" /\ TotalWeight(items) > 0) =>
        /\ DOMAIN ret.val = IdsOf(items)
        /\ \A i \in 1 .. Len(items) : LastMatch(items, items[i].id, i) =>
               NearestEven(ret.val[items[i].id], ExpectedShare(items, i, ret.args.total))

\* two items share an id, the first has all the weight, and the entry of
\* the id is the count of the last, 0; get_item returns the first
C30_Witness ==
    /\ ret.op = "get_expected_counts" /\ ret.args.total > 0
    /\ Len(items) >= 2
    /\ items[1].id = items[Len(items)].id
    /\ items[1].weight > 0 /\ items[Len(items)].weight = 0
    /\ ret.val[items[1].id] = 0
    /\ GetItemIn(items, items[1].id) = Some(items[1])

\* the items are those the mappings give, in order, each weight being
\* Weight(mapping)
ImportedFrom(its, dicts, Weight(_)) ==
    /\ Len(its) = Len(dicts)
    /\ \A i \in 1 .. Len(its) :
           /\ its[i].id = dicts[i].id
           /\ its[i].name = dicts[i].name
           /\ its[i].weight = Weight(dicts[i])

\* the weight of an imported item: 1.0 without a weight key, else what the
\* constructor makes of the value stored
WeightDefaulted(d) ==
    IF "weight" \notin DOMAIN d THEN One
    ELSE IF d.weight < 0 THEN 0 ELSE d.weight

\* the same, a stored weight being taken as it is
WeightAsIs(d) == IF "weight" \notin DOMAIN d THEN One ELSE d.weight

\* what C24 says of an import that returned, with Weight for the weights
ImportDefaults(Weight(_)) ==
    /\ (ret.op = "from_dict" /\ ret.err = "none") =>
           ImportedFrom(ret.val, ret.args.items, Weight)
    /\ (ret.op = "config_from_dict" /\ ret.err = "none") =>
           /\ ImportedFrom(ret.val.part_distribution, ret.args.parts.items, Weight)
           /\ ImportedFrom(ret.val.color_distribution, ret.args.colors.items, Weight)
           /\ ret.val.total_pieces =
                  IF "total_pieces" \in DOMAIN ret.args THEN ret.args.total_pieces ELSE 100
           /\ ret.val.seed = IF "seed" \in DOMAIN ret.args THEN ret.args.seed ELSE None

\* C24 as stated: on import a missing weight becomes 1.0, a missing
\* total_pieces 100 and a missing seed None, and every key that is present is
\* used as it is
C24_PresentKeyAsIs == ImportDefaults(WeightAsIs)

\* C24: on import a missing weight becomes 1.0, a missing total_pieces 100
\* and a missing seed None; a total_pieces or seed that is present is used as
\* it is (0 included), and a weight that is present goes through the
\* constructor: kept when >= 0 (0 included), 0 when negative
C24_ImportDefaults == ImportDefaults(WeightDefaulted)

\* an older file's configuration has been imported: no total_pieces, no seed,
\* and a part without a weight
C24_Witness ==
    /\ ret.op = "config_from_dict" /\ ret.err = "none"
    /\ DOMAIN ret.args = {"parts", "colors"}
    /\ Len(ret.args.parts.items) = 1
    /\ "weight" \notin DOMAIN ret.args.parts.items[1]
    /\ config = ret.val
    /\ config.part_distribution[1].weight = One
    /\ config.total_pieces = 100 /\ config.seed = None

\* the machine epsilon of the single-precision weights of the panel
SingleEpsilon == One \div Pow2(SinglePrecision - 1)

\* the list normalize_weights is run on, and the other one
Chosen(p, distribution_type) == IF distribution_type = "PARTS" THEN p.parts ELSE p.colors
Other(p, distribution_type) == IF distribution_type = "PARTS" THEN p.colors ELSE p.parts

\* what C26 says of a step of normalize_weights, the weight w / sum being
\* kept as Stored(w / sum) and the new weights summing to 1.0 within Tol
NormalizeStep(Stored(_), Tol(_)) ==
    ret'.op = "normalize_weights" =>
        LET old == Chosen(props, ret'.args)
            new == Chosen(props', ret'.args)
            total == FSum(WeightsOf(old))
        IN  /\ Other(props', ret'.args) = Other(props, ret'.args)
            /\ Len(new) = Len(old)
            /\ \A i \in 1 .. Len(old) : [new[i] EXCEPT !.weight = 0] = [old[i] EXCEPT !.weight = 0]
            /\ props'.parts_active_index = props.parts_active_index
            /\ props'.colors_active_index = props.colors_active_index
            /\ IF \A i \in 1 .. Len(old) : old[i].weight = 0
               THEN ret'.val = "CANCELLED" /\ props' = props
               ELSE /\ ret'.val = "FINISHED"
                    /\ \A i \in 1 .. Len(old) :
                           new[i].weight = Stored(FDiv(old[i].weight, total))
                    /\ Abs(ExactSum(WeightsOf(new)) - One) <= Tol(Len(new))

AsComputed(x) == x
NoTolerance(n) == 0
SingleTolerance(n) == n * SingleEpsilon

\* C26 as stated: normalize_weights cancels and changes nothing when the
\* weights of the chosen list sum to 0, and otherwise finishes having
\* replaced every weight w by w / sum, the new weights summing to 1.0; the
\* other list, the number of entries and their order stay
C26_NormalizedExactly == [][NormalizeStep(AsComputed, NoTolerance)]_vars

\* C26: normalize_weights cancels and changes nothing when the weights of
\* the chosen list sum to 0, and otherwise finishes having replaced every
\* weight w by w / sum rounded to the single precision the property stores,
\* the new weights summing to 1.0 within one single-precision epsilon per
\* entry; the other list, the number of entries and their order stay
C26_NormalizedAsStored == [][NormalizeStep(FloatProperty, SingleTolerance)]_vars

\* the parts have been normalized after one of them was set to 0.0: the
\* entry keeps 0.0, the others changed
C26_Witness ==
    /\ ret.op = "normalize_weights" /\ ret.val = "FINISHED" /\ ret.args = "PARTS"
    /\ Len(props.parts) = Len(CommonParts)
    /\ \E i \in 1 .. Len(props.parts) : props.parts[i].weight = 0
    /\ \E i \in 1 .. Len(props.parts) : props.parts[i].weight \notin {0, CommonParts[i].weight}
    /\ props.colors = CommonColors

\* C27: whenever a list of the panel is not empty its active index is the
\* position of one of its entries, 0 <= active_index < len(list), so that
\* remove_part and remove_color delete an entry whenever they run
C27_ActiveIndexValid ==
    /\ Len(props.parts) > 0 => CollectionHas(props.parts, props.parts_active_index)
    /\ Len(props.colors) > 0 => CollectionHas(props.colors, props.colors_active_index)
    /\ ret.op \in {"remove_part", "remove_color"} => ret.err = "none"

\* how often x occurs in the sequence seq
Count(seq, x) == Cardinality({i \in DOMAIN seq : seq[i] = x})

\* the cache keys of the pairs a bake draws in the state it starts from
BakeKeys ==
    LET pairs == GeneratePartColorPairs(BakeConfig(props), rng).val
    IN  [i \in 1 .. Len(pairs) |-> <<pairs[i][1], IntOf(pairs[i][2])>>]

\* C25 as stated: over the bakes of a session, with no cache clear,
\* import_part is called at most once for each (part_id, color_id)
C25_ImportedOnce ==
    \A i, j \in 1 .. Len(bpy.import_part) :
        bpy.import_part[i] = bpy.import_part[j] => i = j

\* C25: over the bakes of a session, with no cache clear, import_part has
\* returned an object at most once for each (part_id, color_id): a
\* combination in the cache has been imported by exactly one call and no call
\* is made for it again, every instance is made from a cached combination,
\* and a bake that finishes makes one instance for each pair drawn whose
\* combination is cached by then.  (A combination whose import fails is not
\* cached, gets no instance, and is imported again at its next occurrence.)
C25_ImportedOnceIfImported ==
    [][/\ cache' # None =>
           /\ \A key \in cache'[1] : Count(bpy'.import_part, key) = 1
           /\ \A i \in 1 .. Len(bpy'.create_instance) :
                  bpy'.create_instance[i] \in cache'[1]
       /\ \A key \in (IF cache = None THEN {} ELSE cache[1]) :
              Count(bpy'.import_part, key) = Count(bpy.import_part, key)
       /\ (ret'.op = "bake_distribution" /\ ret'.val = "FINISHED") =>
              \A key \in Range(BakeKeys) :
                  Count(bpy'.create_instance, key) - Count(bpy.create_instance, key) =
                      IF key \in cache'[1] THEN Count(BakeKeys, key) ELSE 0]_vars

\* after two bakes a combination has been imported once and instanced more
\* than once, and another, whose part file is missing, has been imported
\* more than once and never instanced
C25_Witness ==
    /\ ret.op = "bake_distribution" /\ ret.val = "FINISHED"
    /\ bpy.undo_steps >= 2
    /\ \E key \in cache[1] :
           /\ Count(bpy.import_part, key) = 1
           /\ Count(bpy.create_instance, key) > 1
    /\ \E key \in Range(bpy.import_part) :
           /\ key \notin cache[1]
           /\ Count(bpy.import_part, key) > 1
           /\ Count(bpy.create_instance, key) = 0

\* C28: a bake_distribution that returns CANCELLED has changed nothing: the
\* generator is where it was, the global part cache and its collection have
\* not been made, and nothing has been imported or instanced
C28_CancelledChangesNothing ==
    [][(ret'.op = "bake_distribution" /\ ret'.val = "CANCELLED") =>
           /\ rng' = rng
           /\ cache' = cache
           /\ bpy' = bpy
           /\ props' = props]_vars

\* the generator after count draws from its, started from the state that
\* random.seed(sd) gives and not seeded again
DrawnFromSeed(its, count, sd) == SampleResult(its, count, None, RandomSeed(sd)).rng

\* C29: sample() on a distribution without items leaves the generator as it
\* is, seed or no seed.  So generate_part_color_pairs of a configuration with
\* a seed leaves the generator untouched when both distributions are empty,
\* seeds it with seed + 1 only when just the parts are empty, and with seed
\* only when just the colours are empty; each time it returns no pair.
C29_EmptySampleKeepsGenerator ==
    [][ret'.op = "generate_part_color_pairs" =>
           LET pd == config.part_distribution
               cd == config.color_distribution
               tp == config.total_pieces
           IN  /\ (pd = <<>> /\ cd = <<>>) => rng' = rng
               /\ (pd = <<>> /\ cd # <<>> /\ config.seed # None) =>
                      rng' = DrawnFromSeed(cd, tp, config.seed[1] + 1)
               /\ (pd # <<>> /\ cd = <<>> /\ config.seed # None) =>
                      rng' = DrawnFromSeed(pd, tp, config.seed[1])
               /\ (pd = <<>> \/ cd = <<>>) => ret'.val = <<>> /\ ret'.err = "none"
               /\ (pd = <<>> /\ config.seed = None) =>
                      rng' = SampleResult(cd, tp, None, rng).rng
               /\ (cd = <<>> /\ config.seed = None) =>
                      rng' = SampleResult(pd, tp, None, rng).rng]_vars

\* pairs have been generated from a configuration with seed 0, two colours
\* and no part: no pair is returned and the generator is where seeding with
\* 1 and drawing the colours leaves it, which is not where seeding with 0 and
\* drawing them would have left it
C29_Witness ==
    /\ ret.op = "generate_part_color_pairs" /\ ret.val = <<>>
    /\ config.part_distribution = <<>>
    /\ Len(config.color_distribution) = 2
    /\ config.total_pieces > 0
    /\ config.seed = Some(0)
    /\ rng = DrawnFromSeed(config.color_distribution, config.total_pieces, 1)
    /\ rng # DrawnFromSeed(config.color_distribution, config.total_pieces, 0)

====
